---- MODULE Spec2Model ----
(***************************************************************************)
(* Model of the ffpack manifest core: the Minecraft version parser, its    *)
(* Display and Ord implementations (src/src/types/minecraft.rs), the       *)
(* managed-file set of a Pack (src/src/lib.rs, src/src/types/files.rs)     *)
(* and the hex wire form of the blake3 digests (src/src/types/files.rs).   *)
(*                                                                         *)
(* Text is a sequence of one-character strings.  Option<T> is a sequence   *)
(* of length at most one: <<>> is None, <<x>> is Some(x).                  *)
(***************************************************************************)
EXTENDS Integers, Sequences, FiniteSets, TLC

VARIABLES
    from,           \* Minecraft::new: the input text
    parsed,         \* Option<Result<Minecraft, MinecraftVersionError>>
    displayed,      \* Option<String>: format!("{}", value) of an Ok result
    reparsed,       \* Option<Result<..>>: Minecraft::new of the displayed text
    versions,       \* the values handed to Ord::cmp (a Vec<Minecraft>)
    orderings,      \* Option of the table cmp(versions[i], versions[j])
    managed_files,  \* Pack::managed_files in iteration order
    offered,        \* the ManagedFile values given to the set so far, in order
    built,          \* how the set was produced: "new", "default", "insert", "collect"
    blake3,         \* Source::Url / Source::Path digest: a sequence of bytes
    wire,           \* Option<String>: the digest's text in the manifest
    edits,          \* how many times the text was changed after serializing
    decoded         \* Option<Result<[u8; 32], FromHexError>>

vars == <<from, parsed, displayed, reparsed, versions, orderings, managed_files, offered,
          built, blake3, wire, edits, decoded>>

parseVars == <<from, parsed, displayed, reparsed>>
ordVars == <<versions, orderings>>
packVars == <<managed_files, offered, built>>
hexVars == <<blake3, wire, edits, decoded>>

None == <<>>
Some(x) == <<x>>

----------------------------------------------------------------------------
(* Characters and character classes of the regex crate (Unicode mode).     *)

AsciiDigits == <<"0", "1", "2", "3", "4", "5", "6", "7", "8", "9">>

\* ARABIC-INDIC DIGIT THREE: a decimal digit (\d, \w) that is not ASCII.
ArabicThree == "U+0663"

Letters == {"a", "b", "c", "d", "e", "f", "g", "h", "i", "j", "k", "l", "m",
            "n", "o", "p", "q", "r", "s", "t", "u", "v", "w", "x", "y", "z"}

IsAsciiDigit(ch) == \E i \in 1..Len(AsciiDigits) : AsciiDigits[i] = ch

\* char::to_digit(10)
DigitValue(ch) == (CHOOSE i \in 1..Len(AsciiDigits) : AsciiDigits[i] = ch) - 1

\* \d of the regex crate: Unicode decimal digits
IsDigit(ch) == IsAsciiDigit(ch) \/ ch = ArabicThree

\* \w of the regex crate: letters, digits, connector punctuation
IsWord(ch) == IsDigit(ch) \/ ch \in Letters \/ ch = "_"

\* s[i..j] as a text (empty when j < i)
Slice(s, i, j) == [k \in 1..(j - i + 1) |-> s[i + k - 1]]

\* last index of the longest run of \d starting at index i (i - 1 when none)
RECURSIVE DigitRunEnd(_, _)
DigitRunEnd(s, i) ==
    IF i <= Len(s) /\ IsDigit(s[i]) THEN DigitRunEnd(s, i + 1) ELSE i - 1

SetMax(S) == CHOOSE x \in S : \A y \in S : y <= x
SetMin(S) == CHOOSE x \in S : \A y \in S : x <= y

----------------------------------------------------------------------------
(* u16::from_str and u16's Display                                         *)

U16Max == 65535

\* The checked accumulation loop of core::num's from_str_radix for u16.
RECURSIVE ParseDigits(_, _, _)
ParseDigits(t, i, acc) ==
    IF i > Len(t) THEN [ok |-> TRUE, val |-> acc]
    ELSE IF ~IsAsciiDigit(t[i]) THEN [ok |-> FALSE, kind |-> "InvalidDigit"]
    ELSE IF acc * 10 + DigitValue(t[i]) > U16Max
         THEN [ok |-> FALSE, kind |-> "PosOverflow"]
    ELSE ParseDigits(t, i + 1, acc * 10 + DigitValue(t[i]))

\* mutant: the accumulation wraps modulo 2^16 instead of failing
RECURSIVE WrapDigits(_, _, _)
WrapDigits(t, i, acc) ==
    IF i > Len(t) THEN [ok |-> TRUE, val |-> acc]
    ELSE IF ~IsAsciiDigit(t[i]) THEN [ok |-> FALSE, kind |-> "InvalidDigit"]
    ELSE WrapDigits(t, i + 1, (acc * 10 + DigitValue(t[i])) % (U16Max + 1))

ParseU16Wrapping(t) ==
    IF Len(t) = 0 THEN [ok |-> FALSE, kind |-> "Empty"] ELSE WrapDigits(t, 1, 0)

ParseU16(t) ==
    IF Len(t) = 0 THEN [ok |-> FALSE, kind |-> "Empty"] ELSE ParseDigits(t, 1, 0)

\* "{}" of a u16: decimal, no sign, no leading zero
RECURSIVE FmtU16(_)
FmtU16(n) ==
    IF n < 10 THEN <<AsciiDigits[n + 1]>>
    ELSE FmtU16(n \div 10) \o <<AsciiDigits[(n % 10) + 1]>>

----------------------------------------------------------------------------
(* Minecraft::new                                                          *)

NoMatch == [matched |-> FALSE, g1 |-> <<>>, g2 |-> <<>>, g3 |-> None]

\* RELEASE_REGEX: ^(\d+)\.(\d+)(?:\.(\d+))?$
\* A digit run is followed by "." or the end, neither of which is a digit, so
\* the greedy (longest) run is the only one that can match.
ReleaseCaptures(s) ==
    LET n == Len(s)
        e1 == DigitRunEnd(s, 1)
        e2 == DigitRunEnd(s, e1 + 2)
        e3 == DigitRunEnd(s, e2 + 2)
    IN  IF e1 >= 1 /\ e1 + 1 <= n /\ s[e1 + 1] = "." /\ e2 >= e1 + 2
        THEN IF e2 = n
             THEN [matched |-> TRUE, g1 |-> Slice(s, 1, e1),
                   g2 |-> Slice(s, e1 + 2, e2), g3 |-> None]
             ELSE IF s[e2 + 1] = "." /\ e3 >= e2 + 2 /\ e3 = n
             THEN [matched |-> TRUE, g1 |-> Slice(s, 1, e1),
                   g2 |-> Slice(s, e1 + 2, e2),
                   g3 |-> Some(Slice(s, e2 + 2, e3))]
             ELSE NoMatch
        ELSE NoMatch

\* SNAPSHOT_REGEX: ^(\d+)w(\d+)(\w+)$
\* The week group is greedy and backtracks: it takes the longest digit run that
\* still leaves at least one word character for the specifier group.
SnapshotCaptures(s) ==
    LET n == Len(s)
        e1 == DigitRunEnd(s, 1)
        e2 == DigitRunEnd(s, e1 + 2)
        ends == {j \in (e1 + 2)..e2 :
                    j < n /\ \A k \in (j + 1)..n : IsWord(s[k])}
    IN  IF e1 >= 1 /\ e1 + 1 <= n /\ s[e1 + 1] = "w" /\ ends # {}
        THEN LET j == SetMax(ends)
             IN  [matched |-> TRUE, g1 |-> Slice(s, 1, e1),
                  g2 |-> Slice(s, e1 + 2, j), g3 |-> Some(Slice(s, j + 1, n))]
        ELSE NoMatch

Ok(v) == [ok |-> TRUE, value |-> v]
Err(e) == [ok |-> FALSE, error |-> e]

Release(major, minor, patch) ==
    [type |-> "Release", major |-> major, minor |-> minor, patch |-> patch]
Snapshot(year, week, specifier) ==
    [type |-> "Snapshot", year |-> year, week |-> week, specifier |-> specifier]

NoSupportedPattern(version) == [kind |-> "NoSupportedPattern", version |-> version]
InvalidComponent(source) == [kind |-> "InvalidComponent", source |-> source]

\* The release arm: major, minor, patch are parsed in this order and the first
\* failure returns (the ? operator).
NewRelease(captures) ==
    LET major == ParseU16(captures.g1)
        minor == ParseU16(captures.g2)
        patch == IF captures.g3 = None THEN [ok |-> TRUE, val |-> None]
                 ELSE LET p == ParseU16(captures.g3[1])
                      IN  IF p.ok THEN [ok |-> TRUE, val |-> Some(p.val)] ELSE p
    IN  IF ~major.ok THEN Err(InvalidComponent(major.kind))
        ELSE IF ~minor.ok THEN Err(InvalidComponent(minor.kind))
        ELSE IF ~patch.ok THEN Err(InvalidComponent(patch.kind))
        ELSE Ok(Release(major.val, minor.val, patch.val))

\* The outcome of a call that did not return: Option::unwrap() on None.
Panicked == [ok |-> FALSE, error |-> [kind |-> "panic"]]

\* The snapshot arm: year and week return their failure (the ? operator), then
\* captures.get(3).unwrap() panics when the specifier group took no part in
\* the match.
NewSnapshot(captures) ==
    LET year == ParseU16(captures.g1)
        week == ParseU16(captures.g2)
    IN  IF ~year.ok THEN Err(InvalidComponent(year.kind))
        ELSE IF ~week.ok THEN Err(InvalidComponent(week.kind))
        ELSE IF captures.g3 = None THEN Panicked
        ELSE Ok(Snapshot(year.val, week.val, captures.g3[1]))

\* mutant: a component that fails to parse is treated as "no match" and the
\* next pattern is tried
NewFallsThrough(s) ==
    IF ReleaseCaptures(s).matched /\ NewRelease(ReleaseCaptures(s)).ok
    THEN NewRelease(ReleaseCaptures(s))
    ELSE IF SnapshotCaptures(s).matched /\ NewSnapshot(SnapshotCaptures(s)).ok
    THEN NewSnapshot(SnapshotCaptures(s))
    ELSE Err(NoSupportedPattern(s))

New(s) ==
    IF ReleaseCaptures(s).matched THEN NewRelease(ReleaseCaptures(s))
    ELSE IF SnapshotCaptures(s).matched THEN NewSnapshot(SnapshotCaptures(s))
    ELSE Err(NoSupportedPattern(s))

----------------------------------------------------------------------------
(* impl Display for Minecraft                                              *)

\* mutant: a patch of 0 is not written, as if it were absent
DisplayDropsZeroPatch(v) ==
    IF v.type = "Release"
    THEN IF v.patch # None /\ v.patch[1] # 0
         THEN FmtU16(v.major) \o <<".">> \o FmtU16(v.minor) \o <<".">>
              \o FmtU16(v.patch[1])
         ELSE FmtU16(v.major) \o <<".">> \o FmtU16(v.minor)
    ELSE FmtU16(v.year) \o <<"w">> \o FmtU16(v.week) \o v.specifier

Display(v) ==
    IF v.type = "Release"
    THEN IF v.patch # None
         THEN FmtU16(v.major) \o <<".">> \o FmtU16(v.minor) \o <<".">>
              \o FmtU16(v.patch[1])
         ELSE FmtU16(v.major) \o <<".">> \o FmtU16(v.minor)
    ELSE FmtU16(v.year) \o <<"w">> \o FmtU16(v.week) \o v.specifier

----------------------------------------------------------------------------
(* impl Ord for Minecraft                                                  *)

\* u16::cmp, usize::cmp
CmpInt(x, y) == IF x < y THEN "Less" ELSE IF x > y THEN "Greater" ELSE "Equal"

\* Option<u16>::cmp (derived: None before Some, then the payload)
CmpOption(p, q) ==
    IF p = None /\ q = None THEN "Equal"
    ELSE IF p = None THEN "Less"
    ELSE IF q = None THEN "Greater"
    ELSE CmpInt(p[1], q[1])

\* the characters in the order of their UTF-8 encodings
CodeOrder ==
    AsciiDigits \o <<"_">> \o
    <<"a", "b", "c", "d", "e", "f", "g", "h", "i", "j", "k", "l", "m",
      "n", "o", "p", "q", "r", "s", "t", "u", "v", "w", "x", "y", "z">> \o
    <<ArabicThree>>

CharCode(ch) == CHOOSE i \in 1..Len(CodeOrder) : CodeOrder[i] = ch

\* String::cmp: byte-wise lexicographic, a proper prefix is smaller
RECURSIVE CmpStr(_, _)
CmpStr(s, t) ==
    IF Len(s) = 0 /\ Len(t) = 0 THEN "Equal"
    ELSE IF Len(s) = 0 THEN "Less"
    ELSE IF Len(t) = 0 THEN "Greater"
    ELSE IF CharCode(s[1]) # CharCode(t[1])
         THEN CmpInt(CharCode(s[1]), CharCode(t[1]))
    ELSE CmpStr(Tail(s), Tail(t))

\* mutant: the two variants get the same priority
order_priority_same(self) == 1

order_priority(self) == IF self.type = "Release" THEN 1 ELSE 2

\* match (a, b, c) { (Equal, Equal, c) => c, (Equal, b, _) => b, (a, _, _) => a }
SemverStyle(first, second, third) ==
    IF first = "Equal" /\ second = "Equal" THEN third
    ELSE IF first = "Equal" THEN second
    ELSE first

\* mutant: an absent patch is compared as patch 0
CmpReleasePatchAsZero(self, other) ==
    SemverStyle(CmpInt(self.major, other.major),
                CmpInt(self.minor, other.minor),
                CmpInt(IF self.patch = None THEN 0 ELSE self.patch[1],
                       IF other.patch = None THEN 0 ELSE other.patch[1]))

\* mutant: the minor version is looked at before the major version
CmpReleaseMinorFirst(self, other) ==
    SemverStyle(CmpInt(self.minor, other.minor),
                CmpInt(self.major, other.major),
                CmpOption(self.patch, other.patch))

\* the Release arm, both values being Release
CmpRelease(self, other) ==
    SemverStyle(CmpInt(self.major, other.major),
                CmpInt(self.minor, other.minor),
                CmpOption(self.patch, other.patch))

\* mutant: year and week are compared as their digit texts
CmpSnapshotTextual(self, other) ==
    SemverStyle(CmpStr(FmtU16(self.year), FmtU16(other.year)),
                CmpStr(FmtU16(self.week), FmtU16(other.week)),
                CmpStr(self.specifier, other.specifier))

\* the Snapshot arm, both values being Snapshot
CmpSnapshot(self, other) ==
    SemverStyle(CmpInt(self.year, other.year),
                CmpInt(self.week, other.week),
                CmpStr(self.specifier, other.specifier))

\* Ord::cmp; "panic" stands for reaching unreachable!()
Cmp(self, other) ==
    LET shallow == CmpInt(order_priority(self), order_priority(other))
    IN  IF shallow = "Equal"
        THEN IF self.type = "Release"
             THEN IF other.type = "Release" THEN CmpRelease(self, other)
                  ELSE "panic"
             ELSE IF other.type = "Snapshot" THEN CmpSnapshot(self, other)
                  ELSE "panic"
        ELSE shallow

----------------------------------------------------------------------------
(* ManagedFile and the BTreeSet<ManagedFile> of a Pack                     *)

\* the install paths of the model, in RelativePathBuf order
PathOrder == <<"config/a.toml", "mods/MyAwesomeMod.jar", "mods/b.jar">>

PathRank(path) == CHOOSE i \in 1..Len(PathOrder) : PathOrder[i] = path

\* RelativePathBuf::cmp
CmpPath(p, q) == CmpInt(PathRank(p), PathRank(q))

\* the file names of the model, in String order
FilenameOrder == <<"My Awesome Mod.jar", "other.jar">>

FilenameRank(filename) ==
    CHOOSE i \in 1..Len(FilenameOrder) : FilenameOrder[i] = filename

\* mutant: the filename takes part in the order, after the path
CmpFileByPathThenFilename(self, other) ==
    IF CmpPath(self.path, other.path) # "Equal"
    THEN CmpPath(self.path, other.path)
    ELSE CmpInt(FilenameRank(self.filename), FilenameRank(other.filename))

\* impl Ord for ManagedFile: the path alone
CmpFile(self, other) == CmpPath(self.path, other.path)

\* #[derive(PartialEq)] on ManagedFile: every field
EqFile(self, other) == self = other

\* Source::default(): Url with the all-zero digest
DefaultSource ==
    [variant |-> "Url", url |-> "https://example.org/mods/MyAwesomeMod-1.2.3.jar",
     blake3 |-> "default"]

\* ManagedFile::default()
DefaultFile ==
    [name |-> Some("My totally awesome mode"),
     description |-> Some("It makes trees blue"),
     filename |-> "My Awesome Mod.jar",
     devel |-> TRUE,
     path |-> "mods/MyAwesomeMod.jar",
     side |-> "Both",
     source |-> DefaultSource]

\* mutant: an equal element already in the set is replaced by the new one
\* (BTreeSet::replace)
InsertReplacing(set, value) ==
    IF \E i \in 1..Len(set) : CmpFile(set[i], value) = "Equal"
    THEN [i \in 1..Len(set) |->
            IF CmpFile(set[i], value) = "Equal" THEN value ELSE set[i]]
    ELSE LET before == SelectSeq(set, LAMBDA e : CmpFile(e, value) = "Less")
             after == SelectSeq(set, LAMBDA e : CmpFile(e, value) = "Greater")
         IN  before \o <<value>> \o after

\* BTreeSet::insert on the set given in iteration order: when an element that
\* compares Equal is present the set is left as it is (the entry is not
\* updated), otherwise the value is placed between the smaller and the larger
\* elements.
Insert(set, value) ==
    IF \E i \in 1..Len(set) : CmpFile(set[i], value) = "Equal"
    THEN set
    ELSE LET before == SelectSeq(set, LAMBDA e : CmpFile(e, value) = "Less")
             after == SelectSeq(set, LAMBDA e : CmpFile(e, value) = "Greater")
         IN  before \o <<value>> \o after

\* Vec::sort (stable): each element goes behind the elements that are not
\* greater than it
RECURSIVE SortStable(_)
SortStable(seq) ==
    IF Len(seq) = 0 THEN <<>>
    ELSE LET init == SortStable(SubSeq(seq, 1, Len(seq) - 1))
             last == seq[Len(seq)]
             before == SelectSeq(init, LAMBDA e : CmpFile(e, last) # "Greater")
             after == SelectSeq(init, LAMBDA e : CmpFile(e, last) = "Greater")
         IN  before \o <<last>> \o after

\* DedupSortedIter of the bulk build: an element is skipped when the element
\* after it is == to it (PartialEq, not Ord), so the last of a run of equal
\* elements is the one yielded
RECURSIVE DedupSorted(_)
DedupSorted(sorted) ==
    IF Len(sorted) <= 1 THEN sorted
    ELSE IF EqFile(sorted[1], sorted[2]) THEN DedupSorted(Tail(sorted))
    ELSE <<sorted[1]>> \o DedupSorted(Tail(sorted))

\* impl FromIterator for BTreeSet (.collect()): the items are sorted with the
\* stable sort and the tree is bulk-built from the deduplicated sorted run
Collect(seq) == DedupSorted(SortStable(seq))

----------------------------------------------------------------------------
(* #[serde(with = "hex::serde")] blake3: [u8; 32]                          *)

\* the length of the digest array
DigestLen == 32

HexLower == AsciiDigits \o <<"a", "b", "c", "d", "e", "f">>
HexUpper == AsciiDigits \o <<"A", "B", "C", "D", "E", "F">>

IsHexChar(ch) ==
    \E i \in 1..Len(HexLower) : HexLower[i] = ch \/ HexUpper[i] = ch

\* hex's val(): the nibble of a hex character of either case
HexValue(ch) ==
    (CHOOSE i \in 1..Len(HexLower) : HexLower[i] = ch \/ HexUpper[i] = ch) - 1

\* mutant: the upper-case alphabet is written
EncodeUpper(bytes) ==
    [k \in 1..(2 * Len(bytes)) |->
        IF k % 2 = 1 THEN HexUpper[(bytes[(k + 1) \div 2] \div 16) + 1]
        ELSE HexUpper[(bytes[k \div 2] % 16) + 1]]

\* hex::serde::serialize: two lower-case characters per byte, high nibble first
Encode(bytes) ==
    [k \in 1..(2 * Len(bytes)) |->
        IF k % 2 = 1 THEN HexLower[(bytes[(k + 1) \div 2] \div 16) + 1]
        ELSE HexLower[(bytes[k \div 2] % 16) + 1]]

\* mutant: a short text is padded with zero bytes and a long one cut; a
\* character that is no hex digit still fails
DecodeLenient(text) ==
    IF \E i \in 1..Len(text) : ~IsHexChar(text[i])
    THEN Err("InvalidHexCharacter")
    ELSE Ok([i \in 1..DigestLen |->
                IF 2 * i <= Len(text)
                THEN HexValue(text[2 * i - 1]) * 16 + HexValue(text[2 * i])
                ELSE 0])

\* hex::serde::deserialize into [u8; 32] (FromHex, decode_to_slice): the
\* length is checked first, then every character
Decode(text) ==
    IF Len(text) % 2 # 0 THEN Err("OddLength")
    ELSE IF Len(text) \div 2 # DigestLen THEN Err("InvalidStringLength")
    ELSE IF \E i \in 1..Len(text) : ~IsHexChar(text[i])
         THEN Err("InvalidHexCharacter")
    ELSE Ok([i \in 1..DigestLen |->
                HexValue(text[2 * i - 1]) * 16 + HexValue(text[2 * i])])

----------------------------------------------------------------------------
(* Inputs of Minecraft::new                                                *)

\* at most this many "0" are written in front of a numeric component
MaxPad == 1
\* longest specifier text
MaxSpecLen == 2

RECURSIVE Zeros(_)
Zeros(z) == IF z = 0 THEN <<>> ELSE <<"0">> \o Zeros(z - 1)

\* decimal text of any natural number (FmtU16 is this on the u16 range)
RECURSIVE Decimal(_)
Decimal(n) ==
    IF n < 10 THEN <<AsciiDigits[n + 1]>>
    ELSE Decimal(n \div 10) \o <<AsciiDigits[(n % 10) + 1]>>

\* the number an ASCII digit text denotes, without any width
RECURSIVE Denotes(_)
Denotes(t) ==
    IF Len(t) = 0 THEN 0
    ELSE Denotes(SubSeq(t, 1, Len(t) - 1)) * 10 + DigitValue(t[Len(t)])

AllAsciiDigits(t) == \A i \in 1..Len(t) : IsAsciiDigit(t[i])

ComponentNumbers == {0, 9, 10, 65535, 65536, 99999}

ComponentTexts ==
    {Zeros(z) \o Decimal(n) : z \in 0..MaxPad, n \in ComponentNumbers}
    \cup {<<>>, <<ArabicThree>>, <<"1", ArabicThree>>}

SpecifierChars == {"a", "w", "_", "5", "-"}

SpecifierTexts ==
    UNION {[1..n -> SpecifierChars] : n \in 1..MaxSpecLen}

Separators == {<<".">>, <<"w">>, <<>>, <<" ">>}

Tails ==
    {<<>>} \cup {<<".">> \o t : t \in ComponentTexts} \cup SpecifierTexts

\* the texts of the unit tests and of the rejection examples
NotAVersion == <<"n", "o", "t", " ", "a", " ", "v", "e", "r", "s", "i", "o", "n">>

TestTexts ==
    { <<"1", ".", "1">>, <<"1", ".", "6", ".", "2">>, <<"1", ".", "1", "8">>,
      <<"1", ".", "1", "8", ".", "1">>, <<"1", ".", "1", "8", ".", "2">>,
      <<"1", ".", "1", "9">>, <<"1", "8", "w", "1", "0", "d">>,
      <<"2", "2", "w", "2", "8", "a">>, <<"2", "2", "w", "2", "8", "b">>,
      <<"1", ".", "9", "9", ".", "9", "9">>,
      <<"9", "9", "9", "9", "9", ".", "0">>, NotAVersion }

Inputs ==
    {c1 \o s1 \o c2 \o t :
        c1 \in ComponentTexts, s1 \in Separators, c2 \in ComponentTexts, t \in Tails}
    \cup TestTexts

----------------------------------------------------------------------------
(* Parsing and formatting a text                                           *)

IdleOrd == versions = <<>> /\ orderings = None
IdlePack == managed_files = <<>> /\ offered = <<>> /\ built = "new"
IdleHex == blake3 = <<>> /\ wire = None /\ edits = 0 /\ decoded = None
IdleParse ==
    from = <<>> /\ parsed = None /\ displayed = None /\ reparsed = None

InitParse ==
    /\ from \in Inputs
    /\ parsed = None
    /\ displayed = None
    /\ reparsed = None
    /\ IdleOrd /\ IdlePack /\ IdleHex

\* let parsed = Minecraft::new(from)
Parse ==
    /\ parsed = None
    /\ parsed' = Some(New(from))
    /\ UNCHANGED <<from, displayed, reparsed, ordVars, packVars, hexVars>>

\* let displayed = format!("{}", parsed)   (after .unwrap())
Format ==
    /\ parsed # None
    /\ parsed[1].ok
    /\ displayed = None
    /\ displayed' = Some(Display(parsed[1].value))
    /\ UNCHANGED <<from, parsed, reparsed, ordVars, packVars, hexVars>>

\* let reparsed = Minecraft::new(&displayed)
Reparse ==
    /\ displayed # None
    /\ reparsed = None
    /\ reparsed' = Some(New(displayed[1]))
    /\ UNCHANGED <<from, parsed, displayed, ordVars, packVars, hexVars>>

NextParse == Parse \/ Format \/ Reparse

SpecParse == InitParse /\ [][NextParse]_vars

----------------------------------------------------------------------------
(* The two grammars, stated over the text alone                            *)

DigitText(t) == Len(t) >= 1 /\ \A i \in 1..Len(t) : IsDigit(t[i])
WordText(t) == Len(t) >= 1 /\ \A i \in 1..Len(t) : IsWord(t[i])

\* ^\d+\.\d+(\.\d+)?$
InReleaseGrammar(s) ==
    \E i \in 1..Len(s) :
        /\ s[i] = "."
        /\ DigitText(Slice(s, 1, i - 1))
        /\ \/ DigitText(Slice(s, i + 1, Len(s)))
           \/ \E j \in (i + 1)..Len(s) :
                /\ s[j] = "."
                /\ DigitText(Slice(s, i + 1, j - 1))
                /\ DigitText(Slice(s, j + 1, Len(s)))

\* ^\d+w\d+\w+$
InSnapshotGrammar(s) ==
    \E i \in 1..Len(s) : \E j \in (i + 1)..Len(s) :
        /\ s[i] = "w"
        /\ DigitText(Slice(s, 1, i - 1))
        /\ DigitText(Slice(s, i + 1, j))
        /\ WordText(Slice(s, j + 1, Len(s)))

IsError(r, kind) == ~r.ok /\ r.error.kind = kind

\* the numeric capture groups of the pattern that matched
NumericGroups(s) ==
    LET rc == ReleaseCaptures(s)
        sc == SnapshotCaptures(s)
    IN  IF rc.matched
        THEN {rc.g1, rc.g2} \cup (IF rc.g3 = None THEN {} ELSE {rc.g3[1]})
        ELSE IF sc.matched THEN {sc.g1, sc.g2} ELSE {}

\* t without its leading zeros
RECURSIVE Significant(_)
Significant(t) ==
    IF Len(t) > 1 /\ t[1] = "0" THEN Significant(Tail(t)) ELSE t

\* t does not denote a number of 0..65535 (65535 has five digits)
OutOfRange(t) ==
    \/ ~AllAsciiDigits(t)
    \/ Len(Significant(t)) > Len(Decimal(U16Max))
    \/ Denotes(Significant(t)) > U16Max

----------------------------------------------------------------------------
(* Claims on Minecraft::new and Display                                    *)

\* C1 (as claimed): whenever an accepted text has been formatted back, the
\* formatted text is the input text itself: display(parse(s)) = s.
DisplayRoundTrips == displayed # None => displayed[1] = from

\* C4: NoSupportedPattern is returned exactly for the texts in neither grammar
\* and carries the input unchanged; a text of the release grammar is never
\* parsed as a snapshot (release is tried first, snapshot second).
NoSupportedPatternExactly ==
    parsed # None =>
        LET r == parsed[1]
        IN  /\ IsError(r, "NoSupportedPattern")
                <=> (~InReleaseGrammar(from) /\ ~InSnapshotGrammar(from))
            /\ IsError(r, "NoSupportedPattern") => r.error.version = from
            /\ (r.ok /\ InReleaseGrammar(from)) => r.value.type = "Release"
            /\ (r.ok /\ r.value.type = "Snapshot")
                => (InSnapshotGrammar(from) /\ ~InReleaseGrammar(from))

\* C4 witness: "not a version" has been parsed and rejected with itself
NoSupportedPatternSeen ==
    /\ from = NotAVersion
    /\ parsed # None
    /\ IsError(parsed[1], "NoSupportedPattern")
    /\ parsed[1].error.version = NotAVersion

\* C5: a text of either grammar with a numeric component above 65535 (or not
\* made of ASCII digits) yields InvalidComponent; an Ok value carries exactly
\* the numbers the component texts denote, never a wrapped one.
OverflowIsInvalidComponent ==
    parsed # None =>
        LET r == parsed[1]
            rc == ReleaseCaptures(from)
            sc == SnapshotCaptures(from)
        IN  (InReleaseGrammar(from) \/ InSnapshotGrammar(from)) =>
            /\ (\E t \in NumericGroups(from) : OutOfRange(t))
                => IsError(r, "InvalidComponent")
            /\ ~IsError(r, "NoSupportedPattern")
            /\ (r.ok /\ r.value.type = "Release") =>
                /\ r.value.major = Denotes(rc.g1) /\ r.value.major <= U16Max
                /\ r.value.minor = Denotes(rc.g2) /\ r.value.minor <= U16Max
                /\ (rc.g3 # None) =>
                     /\ r.value.patch = Some(Denotes(rc.g3[1]))
                     /\ r.value.patch[1] <= U16Max
            /\ (r.ok /\ r.value.type = "Snapshot") =>
                /\ r.value.year = Denotes(sc.g1) /\ r.value.year <= U16Max
                /\ r.value.week = Denotes(sc.g2) /\ r.value.week <= U16Max

\* C5 witness: "99999.0" was parsed and rejected with InvalidComponent
OverflowSeen ==
    /\ from = <<"9", "9", "9", "9", "9", ".", "0">>
    /\ parsed # None
    /\ IsError(parsed[1], "InvalidComponent")

----------------------------------------------------------------------------
(* Comparing values: the double loop of unit_tests::order                  *)

\* how many values are compared with each other
ListLen == 3

FieldNumbers == {9, 10}
PatchValues == {None, Some(0), Some(10)}
Specifiers == {<<"a">>, <<"a", "a">>, <<"a", "b">>, <<"b">>}

Releases ==
    {Release(major, minor, patch) :
        major \in FieldNumbers, minor \in FieldNumbers, patch \in PatchValues}
Snapshots ==
    {Snapshot(year, week, specifier) :
        year \in FieldNumbers, week \in FieldNumbers, specifier \in Specifiers}
Values == Releases \cup Snapshots

InitOrd ==
    /\ versions \in [1..ListLen -> Values]
    /\ orderings = None
    /\ IdleParse /\ IdlePack /\ IdleHex

\* for each (index_1, index_2): version_1.cmp(version_2); with no versions the
\* loops have no iteration and nothing is compared
CompareAll ==
    /\ versions # <<>>
    /\ orderings = None
    /\ orderings' = Some([i \in 1..Len(versions), j \in 1..Len(versions)
                            |-> Cmp(versions[i], versions[j])])
    /\ UNCHANGED <<versions, parseVars, packVars, hexVars>>

NextOrd == CompareAll

SpecOrd == InitOrd /\ [][NextOrd]_vars

----------------------------------------------------------------------------
(* Claims on Ord::cmp                                                      *)

Reverse(o) ==
    IF o = "Less" THEN "Greater" ELSE IF o = "Greater" THEN "Less" ELSE o

Indices == 1..Len(versions)

\* s is strictly before t in dictionary order: at the first index where they
\* differ s has the smaller character, or s is a proper prefix of t
LexLess(s, t) ==
    \E k \in 1..(Len(t)) :
        /\ \A i \in 1..(k - 1) : i <= Len(s) /\ s[i] = t[i]
        /\ \/ k = Len(s) + 1
           \/ k <= Len(s) /\ CharCode(s[k]) < CharCode(t[k])

LexOrder(s, t) ==
    IF s = t THEN "Equal" ELSE IF LexLess(s, t) THEN "Less" ELSE "Greater"

\* C2: cmp is a strict total order over Release and Snapshot values mixed:
\* cmp(a,b) is the reverse of cmp(b,a), it is Equal exactly for structurally
\* equal values, Less is transitive, and in a list whose neighbours ascend
\* cmp(list[i], list[j]) is the comparison of the indices i and j.
CmpStrictTotalOrder ==
    orderings # None =>
        LET o == orderings[1]
        IN  /\ \A i, j \in Indices :
                /\ o[i, j] \in {"Less", "Equal", "Greater"}
                /\ o[i, j] = Reverse(o[j, i])
                /\ (o[i, j] = "Equal") <=> (versions[i] = versions[j])
            /\ \A i, j, k \in Indices :
                (o[i, j] = "Less" /\ o[j, k] = "Less") => o[i, k] = "Less"
            /\ (\A i \in Indices : i + 1 \in Indices => o[i, i + 1] = "Less")
                => \A i, j \in Indices : o[i, j] = CmpInt(i, j)

\* C2 witness: an ascending list that goes from a release to a snapshot and
\* has been compared
AscendingMixedListCompared ==
    /\ orderings # None
    /\ \A i \in Indices : i + 1 \in Indices => orderings[1][i, i + 1] = "Less"
    /\ versions[1].type = "Release"
    /\ versions[Len(versions)].type = "Snapshot"
    /\ orderings[1][Len(versions), 1] = "Greater"

\* C3: a Release is Less than a Snapshot and a Snapshot Greater than a
\* Release, whatever the fields hold.
ReleaseBeforeSnapshot ==
    orderings # None =>
        \A i, j \in Indices :
            (versions[i].type = "Release" /\ versions[j].type = "Snapshot")
                => (orderings[1][i, j] = "Less" /\ orderings[1][j, i] = "Greater")

\* C3 witness: a release whose numbers are all larger than the snapshot's was
\* compared with it and came out Less
LargeReleaseBeforeSmallSnapshot ==
    /\ orderings # None
    /\ versions[1] = Release(10, 10, Some(10))
    /\ versions[2] = Snapshot(9, 9, <<"a">>)
    /\ orderings[1][1, 2] = "Less"
    /\ orderings[1][2, 1] = "Greater"

\* the order of two patches: absent is before every present one
PatchOrder(p, q) ==
    IF p = q THEN "Equal"
    ELSE IF p = None THEN "Less"
    ELSE IF q = None THEN "Greater"
    ELSE CmpInt(p[1], q[1])

\* C9: two releases compare by major, then minor, then patch, the first
\* unequal component deciding; an absent patch is below every patch, 0
\* included, and above nothing of the same major.minor.
ReleaseOrder ==
    orderings # None =>
        \A i, j \in Indices :
            LET x == versions[i]
                y == versions[j]
            IN  (x.type = "Release" /\ y.type = "Release") =>
                /\ orderings[1][i, j] =
                    IF x.major # y.major THEN CmpInt(x.major, y.major)
                    ELSE IF x.minor # y.minor THEN CmpInt(x.minor, y.minor)
                    ELSE PatchOrder(x.patch, y.patch)
                /\ (x.major = y.major /\ x.minor = y.minor
                        /\ x.patch = None /\ y.patch # None)
                    => orderings[1][i, j] = "Less"
                /\ (x.major = y.major /\ x.minor < y.minor)
                    => orderings[1][i, j] = "Less"

\* C9 witness: M.m was compared with M.m.0 and is Less, and M.m.10 is Less
\* than M.(m+1)
AbsentPatchBelowZeroSeen ==
    /\ orderings # None
    /\ versions[1] = Release(9, 9, None)
    /\ versions[2] = Release(9, 9, Some(0))
    /\ versions[3] = Release(9, 10, None)
    /\ orderings[1][1, 2] = "Less"
    /\ orderings[1][2, 3] = "Less"

\* C10: two snapshots compare by year, then week, both as numbers, then by
\* specifier in dictionary order, the first unequal component deciding.
SnapshotOrder ==
    orderings # None =>
        \A i, j \in Indices :
            LET x == versions[i]
                y == versions[j]
            IN  (x.type = "Snapshot" /\ y.type = "Snapshot") =>
                orderings[1][i, j] =
                    IF x.year # y.year THEN CmpInt(x.year, y.year)
                    ELSE IF x.week # y.week THEN CmpInt(x.week, y.week)
                    ELSE LexOrder(x.specifier, y.specifier)

\* C10 witness: week 9 was compared with week 10 of the same year and is Less,
\* though "9" is after "10" as a text
WeekNineBeforeWeekTenSeen ==
    /\ orderings # None
    /\ versions[1] = Snapshot(10, 9, <<"b">>)
    /\ versions[2] = Snapshot(10, 10, <<"a">>)
    /\ orderings[1][1, 2] = "Less"
    /\ CmpStr(FmtU16(9), FmtU16(10)) = "Greater"

----------------------------------------------------------------------------
(* Building the managed-file set of a Pack                                 *)

\* how many files are handed to a set
MaxOffers == 3

Files ==
    {[DefaultFile EXCEPT !.path = path, !.filename = filename, !.devel = devel] :
        path \in {PathOrder[i] : i \in 1..Len(PathOrder)},
        filename \in {FilenameOrder[i] : i \in 1..Len(FilenameOrder)},
        devel \in BOOLEAN}

InitPack ==
    /\ managed_files = <<>>
    /\ offered = <<>>
    /\ built = "new"
    /\ IdleParse /\ IdleOrd /\ IdleHex

\* Pack::default(): managed_files: [ManagedFile::default()].into_iter().collect()
DefaultPack ==
    /\ built = "new"
    /\ offered = <<>>
    /\ managed_files' = Collect(<<DefaultFile>>)
    /\ offered' = <<DefaultFile>>
    /\ built' = "default"
    /\ UNCHANGED <<parseVars, ordVars, hexVars>>

\* pack.managed_files.insert(file)
InsertFile(file) ==
    /\ built \in {"new", "default", "insert"}
    /\ Len(offered) < MaxOffers
    /\ managed_files' = Insert(managed_files, file)
    /\ offered' = Append(offered, file)
    /\ built' = IF built = "new" THEN "insert" ELSE built
    /\ UNCHANGED <<parseVars, ordVars, hexVars>>

\* pack.managed_files = files.into_iter().collect()
CollectFiles(files) ==
    /\ built = "new"
    /\ offered = <<>>
    /\ managed_files' = Collect(files)
    /\ offered' = files
    /\ built' = "collect"
    /\ UNCHANGED <<parseVars, ordVars, hexVars>>

NextPack ==
    \/ DefaultPack
    \/ \E file \in Files : InsertFile(file)
    \/ \E n \in 0..MaxOffers : \E files \in [1..n -> Files] : CollectFiles(files)

SpecPack == InitPack /\ [][NextPack]_vars

----------------------------------------------------------------------------
(* Claims on the managed-file set                                          *)

OfferedPaths == {offered[i].path : i \in 1..Len(offered)}

\* the first and the last file with this path among the files handed over
FirstOffered(path) ==
    offered[SetMin({i \in 1..Len(offered) : offered[i].path = path})]
LastOffered(path) ==
    offered[SetMax({i \in 1..Len(offered) : offered[i].path = path})]

EntriesAt(path) == SelectSeq(managed_files, LAMBDA e : e.path = path)

\* C6: a set made by insertions, from the empty set or from the default
\* pack's set, has its entries in strictly ascending path order (so one entry
\* per path at most), holds an entry for every path inserted, and has size 1
\* after two files with one path and two filenames.
InsertedSetUniqueAndSorted ==
    built \in {"new", "default", "insert"} =>
        /\ \A i, j \in 1..Len(managed_files) :
            i < j => CmpPath(managed_files[i].path, managed_files[j].path) = "Less"
        /\ \A path \in OfferedPaths : Len(EntriesAt(path)) = 1
        /\ {managed_files[i].path : i \in 1..Len(managed_files)} = OfferedPaths
        /\ (/\ Len(offered) = 2
            /\ offered[1].path = offered[2].path
            /\ offered[1].filename # offered[2].filename)
            => Len(managed_files) = 1

\* C6 witness: two files with the same path and different filenames were
\* inserted into the empty set, which now has one entry
SamePathInsertedTwice ==
    /\ built = "insert"
    /\ Len(offered) = 2
    /\ offered[1].path = offered[2].path
    /\ offered[1].filename # offered[2].filename
    /\ Len(managed_files) = 1

----------------------------------------------------------------------------
(* Writing a digest to the manifest and reading it back                    *)

\* how many changes are made to a serialized text
MaxEdits == 1

Digests ==
    {[i \in 1..DigestLen |-> (a * i + b) % 256] :
        a \in {0, 1, 7, 16}, b \in {0, 10, 171, 255}}

EditChars == {"0", "g", "-", "A", "F"}
EditPositions == {1, 2, 2 * DigestLen - 1, 2 * DigestLen}

InitHex ==
    /\ blake3 \in Digests
    /\ wire = None
    /\ edits = 0
    /\ decoded = None
    /\ IdleParse /\ IdleOrd /\ IdlePack

\* serialize the Source: the digest goes through hex::serde::serialize
Serialize ==
    /\ wire = None
    /\ wire' = Some(Encode(blake3))
    /\ UNCHANGED <<blake3, edits, decoded, parseVars, ordVars, packVars>>

Editable == wire # None /\ decoded = None /\ edits < MaxEdits

\* the manifest text loses its last character
Truncate ==
    /\ Editable
    /\ Len(wire[1]) > 0
    /\ wire' = Some(SubSeq(wire[1], 1, Len(wire[1]) - 1))
    /\ edits' = edits + 1
    /\ UNCHANGED <<blake3, decoded, parseVars, ordVars, packVars>>

\* the manifest text gains a character
Extend(ch) ==
    /\ Editable
    /\ wire' = Some(Append(wire[1], ch))
    /\ edits' = edits + 1
    /\ UNCHANGED <<blake3, decoded, parseVars, ordVars, packVars>>

\* a character of the manifest text is overwritten
Overwrite(i, ch) ==
    /\ Editable
    /\ i \in 1..Len(wire[1])
    /\ wire' = Some([wire[1] EXCEPT ![i] = ch])
    /\ edits' = edits + 1
    /\ UNCHANGED <<blake3, decoded, parseVars, ordVars, packVars>>

\* deserialize the Source: the text goes through hex::serde::deserialize
Deserialize ==
    /\ wire # None
    /\ decoded = None
    /\ decoded' = Some(Decode(wire[1]))
    /\ UNCHANGED <<blake3, wire, edits, parseVars, ordVars, packVars>>

NextHex ==
    \/ Serialize
    \/ Truncate
    \/ \E ch \in EditChars : Extend(ch)
    \/ \E i \in EditPositions : \E ch \in EditChars : Overwrite(i, ch)
    \/ Deserialize

SpecHex == InitHex /\ [][NextHex]_vars

----------------------------------------------------------------------------
(* Claims on the digest's wire form                                        *)

IsLowerHexChar(ch) == \E i \in 1..Len(HexLower) : HexLower[i] = ch

\* C8: a digest is written as exactly 64 lower-case hex characters and read
\* back byte for byte; a text whose length is not 64 or that holds a
\* character that is no hex digit is an error; what is read is 32 bytes.
DigestHexRoundTrip ==
    /\ (wire # None /\ edits = 0) =>
        /\ Len(wire[1]) = 2 * DigestLen
        /\ \A i \in 1..Len(wire[1]) : IsLowerHexChar(wire[1][i])
    /\ (decoded # None /\ edits = 0) => decoded[1] = Ok(blake3)
    /\ decoded # None =>
        /\ (\/ Len(wire[1]) # 2 * DigestLen
            \/ \E i \in 1..Len(wire[1]) : ~IsHexChar(wire[1][i]))
            => ~decoded[1].ok
        /\ decoded[1].ok =>
            /\ Len(decoded[1].value) = DigestLen
            /\ \A i \in 1..DigestLen : decoded[1].value[i] \in 0..255
            /\ \A i \in 1..DigestLen :
                decoded[1].value[i] =
                    HexValue(wire[1][2 * i - 1]) * 16 + HexValue(wire[1][2 * i])

\* C8 witness: a digest with bytes above 0x9f was written and read back
DigestReadBack ==
    /\ decoded # None
    /\ edits = 0
    /\ decoded[1] = Ok(blake3)
    /\ \E i \in 1..DigestLen : blake3[i] \div 16 >= 10

----------------------------------------------------------------------------
(* The version API as a whole: parsing a text or comparing values          *)

InitApi == InitParse \/ InitOrd

NextApi == NextParse \/ NextOrd

SpecApi == InitApi /\ [][NextApi]_vars

\* C11: no call of the version API panics: no comparison of two values ends
\* in unreachable!() (the priorities are equal only for values of one
\* variant), and Minecraft::new returns Ok, NoSupportedPattern or
\* InvalidComponent for every text, never the panic of an unwrap.
NoPanic ==
    /\ orderings # None =>
        \A i, j \in Indices :
            /\ orderings[1][i, j] # "panic"
            /\ (order_priority(versions[i]) = order_priority(versions[j]))
                <=> (versions[i].type = versions[j].type)
    /\ parsed # None =>
        /\ parsed[1] # Panicked
        /\ \/ parsed[1].ok
           \/ IsError(parsed[1], "NoSupportedPattern")
           \/ IsError(parsed[1], "InvalidComponent")

\* C11 witness: a snapshot and a release were compared in both directions and
\* both calls returned an ordering
MixedVariantsComparedBothWays ==
    /\ orderings # None
    /\ Len(versions) >= 2
    /\ versions[1].type = "Snapshot"
    /\ versions[2].type = "Release"
    /\ orderings[1][1, 2] = "Greater"
    /\ orderings[1][2, 1] = "Less"

----------------------------------------------------------------------------
(* Claim on parsing the displayed text                                     *)

\* C12: the text Display writes for a parsed value parses again, to a value
\* structurally equal to the first one; this includes the snapshot texts
\* that are all digits after the "w", whose last digit is the specifier.
DisplayedTextParsesBack ==
    reparsed # None =>
        /\ parsed[1].ok
        /\ reparsed[1].ok
        /\ reparsed[1].value = parsed[1].value
        /\ Display(reparsed[1].value) = displayed[1]

\* C12 witness: "10w010" was parsed as week 1 with specifier "0", displayed
\* as "10w10" and parsed again to the same value
AllDigitSnapshotParsedBack ==
    /\ from = <<"1", "0", "w", "0", "1", "0">>
    /\ parsed = Some(Ok(Snapshot(10, 1, <<"0">>)))
    /\ displayed = Some(<<"1", "0", "w", "1", "0">>)
    /\ reparsed = parsed

====
